---- MODULE Spec2Model ----
(***************************************************************************)
(* confix: load config files, merge them, run a command with the merged    *)
(* mapping injected into its environment.                                  *)
(*                                                                         *)
(* Modelled: config.rs (load_config_file and the three loaders),           *)
(* runner.rs (merge_configs, run_command), main.rs (main), error.rs        *)
(* (ConfixError and its Display), cli.rs (the `required` command).         *)
(*                                                                         *)
(* A path is the sequence of its characters, so that Path::extension and   *)
(* Path::file_name are computed and not assumed.  The contents of a file   *)
(* are abstracted to what the parser of the file's format returns on them  *)
(* (a mapping, or a parse error); the parsers are external libraries.      *)
(***************************************************************************)
EXTENDS Integers, Sequences, FiniteSets, TLC

VARIABLES
    entry,        \* the function the run was entered through
    config_paths, \* the ordered config paths (run_command's first argument)
    cmd_args,     \* the command vector (run_command's second argument)
    parentEnv,    \* the environment of the tool's own process
    fs,           \* the filesystem: path -> what is there
    pc,           \* position of the single thread of control
    idx,          \* merge_configs: index of the path being loaded
    merged,       \* merge_configs: merged_config, the accumulator
    loadResult,   \* what load_config_file returned last
    returned,     \* every result load_config_file returned, in call order
    mergeResult,  \* what merge_configs returned
    result,       \* what run_command returned
    osLog,        \* the OS operations made so far, in order
    childEnv,     \* environment given to the spawned child (<<>> before)
    status,       \* the ExitStatus wait() returned, as Option<i32>
    stderr,       \* lines the tool itself wrote to standard error
    exitCode      \* the tool's process exit code, as Option<i32>

vars == <<entry, config_paths, cmd_args, parentEnv, fs, pc, idx, merged,
          loadResult, returned, mergeResult, result, osLog, childEnv, status,
          stderr, exitCode>>

-----------------------------------------------------------------------------
(* Bounds *)

\* longest list of --config paths
MaxPaths == 2

-----------------------------------------------------------------------------
(* Option and Result *)

None == <<>>
Some(x) == <<x>>
UnwrapOr(o, d) == IF o = <<>> THEN d ELSE o[1]

Pending == [tag |-> "Pending"]
Ok(v) == [tag |-> "Ok", val |-> v]
Err(e) == [tag |-> "Err", err |-> e]
IsOk(r) == r.tag = "Ok"
IsErr(r) == r.tag = "Err"

-----------------------------------------------------------------------------
(* ConfigMap: HashMap<String, String> as a function over its key set *)

EmptyMap == [k \in {} |-> "x"]

\* mutant: extend() that keeps the value already present
ExtendKeepFirst(m, c) ==
    [k \in DOMAIN m \cup DOMAIN c |-> IF k \in DOMAIN m THEN m[k] ELSE c[k]]

\* HashMap::extend(other): insert every entry of c, replacing values
Extend(m, c) ==
    [k \in DOMAIN m \cup DOMAIN c |-> IF k \in DOMAIN c THEN c[k] ELSE m[k]]

-----------------------------------------------------------------------------
(* Paths *)

\* a byte that is not valid UTF-8 (OsStr::to_str gives None on it)
InvalidByte == "\\xFF"

P_a_env      == <<"a", ".", "e", "n", "v">>
P_b_json     == <<"b", ".", "j", "s", "o", "n">>
P_c_toml     == <<"c", ".", "t", "o", "m", "l">>
P_d_txt      == <<"d", ".", "t", "x", "t">>
P_dotenv     == <<".", "e", "n", "v">>
P_dir_dotenv == <<"d", "/", ".", "e", "n", "v">>
P_dotjson    == <<".", "j", "s", "o", "n">>
P_a_JSON     == <<"a", ".", "J", "S", "O", "N">>
P_a_Env      == <<"a", ".", "E", "n", "v">>
P_noext      == <<"e", "n", "v">>
P_a_env_json == <<"a", ".", "e", "n", "v", ".", "j", "s", "o", "n">>
P_a_json_bak == <<"a", ".", "j", "s", "o", "n", ".", "b">>
P_a_dot      == <<"a", ".">>
P_x_dotenv   == <<"x", ".", "e", "n", "v">>
P_badutf_env == <<"a", ".", InvalidByte, "e", "n", "v">>

\* the paths load_config_file is exercised on
AllPaths ==
    {P_a_env, P_b_json, P_c_toml, P_d_txt, P_dotenv, P_dir_dotenv, P_dotjson,
     P_a_JSON, P_a_Env, P_noext, P_a_env_json, P_a_json_bak, P_a_dot,
     P_x_dotenv, P_badutf_env}

\* the paths given to merge_configs and run_command
RunPaths == {P_a_env, P_b_json, P_c_toml, P_d_txt}

\* index of the last occurrence of character c in s, 0 when there is none
RECURSIVE LastIndexOf(_, _, _)
LastIndexOf(s, c, i) ==
    IF i = 0 THEN 0
    ELSE IF s[i] = c THEN i
    ELSE LastIndexOf(s, c, i - 1)

\* Path::file_name: the final component (the paths here end in a normal one)
file_name(path) ==
    LET slash == LastIndexOf(path, "/", Len(path))
        name == SubSeq(path, slash + 1, Len(path))
    IN IF name = <<".", ".">> \/ name = <<>> THEN None ELSE Some(name)

\* Path::extension: the part of file_name after its last dot; None when
\* there is no dot or the only dot is the first character
extension(path) ==
    LET fname == file_name(path)
    IN IF fname = None THEN None
       ELSE LET name == fname[1]
                dot == LastIndexOf(name, ".", Len(name))
            IN IF dot <= 1 THEN None
               ELSE Some(SubSeq(name, dot + 1, Len(name)))

\* OsStr::to_str: None unless valid UTF-8
to_str(os) ==
    IF \E i \in 1..Len(os) : os[i] = InvalidByte THEN None ELSE Some(os)

\* Option::and_then(|s| s.to_str())
AndThenToStr(o) == IF o = None THEN None ELSE to_str(o[1])

-----------------------------------------------------------------------------
(* ConfixError (error.rs) *)

FileNotFound(path)      == [kind |-> "FileNotFound", payload |-> path]
UnsupportedFormat(path) == [kind |-> "UnsupportedFormat", payload |-> path]
Io(cause)               == [kind |-> "Io", payload |-> cause]
Dotenv(cause)           == [kind |-> "Dotenv", payload |-> cause]
Json(cause)             == [kind |-> "Json", payload |-> cause]
Toml(cause)             == [kind |-> "Toml", payload |-> cause]
CommandFailed(msg)      == [kind |-> "CommandFailed", payload |-> msg]

\* the #[error("...")] prefix of each variant
Prefix(kind) ==
    CASE kind = "Io"                -> "IO error: "
      [] kind = "Dotenv"            -> "Dotenv error: "
      [] kind = "Json"              -> "JSON parsing error: "
      [] kind = "Toml"              -> "TOML parsing error: "
      [] kind = "CommandFailed"     -> "Command execution failed: "
      [] kind = "UnsupportedFormat" -> "Unsupported file format for: "
      [] kind = "FileNotFound"      -> "Configuration file not found: "

\* Display for ConfixError: the prefix followed by the payload
Display(e) == <<Prefix(e.kind), e.payload>>

-----------------------------------------------------------------------------
(* The filesystem *)

Absent == [kind |-> "absent", ok |-> FALSE, map |-> EmptyMap]
\* exists, but reading it as a file fails (a directory)
Dir == [kind |-> "dir", ok |-> FALSE, map |-> EmptyMap]
\* a regular file whose contents are not valid UTF-8
NotUtf8 == [kind |-> "binary", ok |-> FALSE, map |-> EmptyMap]
\* a regular file whose contents the parser of its format rejects
BadFile == [kind |-> "file", ok |-> FALSE, map |-> EmptyMap]
\* a regular file whose contents parse to the mapping m
GoodFile(m) == [kind |-> "file", ok |-> TRUE, map |-> m]

\* the mappings of runner.rs's tests
M_env  == ("KEY1" :> "value1") @@ ("OVERRIDE" :> "from_env")
M_json == ("OVERRIDE" :> "from_json") @@ ("KEY2" :> "value2")
M_test == ("TEST_VAR" :> "confix_test_ran")

FileMaps == {EmptyMap, M_env, M_json, M_test}

FileStates ==
    {Absent, Dir, NotUtf8, BadFile} \cup {GoodFile(m) : m \in FileMaps}

\* Path::exists on what is at the path
Exists(st) == st.kind /= "absent"

\* load_dotenv: dotenvy::from_path_iter(path)?, then item? for every line.
\* Opening or reading failures arrive as dotenvy::Error::Io, so they are
\* converted to ConfixError::Dotenv as well.
load_dotenv(st) ==
    IF st.kind = "absent" THEN Err(Dotenv("Io: NotFound"))
    ELSE IF st.kind = "dir" THEN Err(Dotenv("Io: IsADirectory"))
    ELSE IF st.kind = "binary" THEN Err(Dotenv("Io: InvalidData"))
    ELSE IF ~st.ok THEN Err(Dotenv("LineParse"))
    ELSE Ok(st.map)

\* mutant: read failures of the JSON loader reported as parse errors
load_json_no_io(st) ==
    IF st.kind = "file" /\ st.ok THEN Ok(st.map) ELSE Err(Json("syntax"))

\* load_json: fs::read_to_string(path)? (std::io::Error -> Io), then
\* serde_json::from_str(&content)? (serde_json::Error -> Json)
load_json(st) ==
    IF st.kind = "absent" THEN Err(Io("NotFound"))
    ELSE IF st.kind = "dir" THEN Err(Io("IsADirectory"))
    ELSE IF st.kind = "binary" THEN Err(Io("InvalidData"))
    ELSE IF ~st.ok THEN Err(Json("syntax"))
    ELSE Ok(st.map)

\* load_toml: fs::read_to_string(path)?, then toml::from_str(&content)?
load_toml(st) ==
    IF st.kind = "absent" THEN Err(Io("NotFound"))
    ELSE IF st.kind = "dir" THEN Err(Io("IsADirectory"))
    ELSE IF st.kind = "binary" THEN Err(Io("InvalidData"))
    ELSE IF ~st.ok THEN Err(Toml("syntax"))
    ELSE Ok(st.map)

Ext_env  == <<"e", "n", "v">>
Ext_json == <<"j", "s", "o", "n">>
Ext_toml == <<"t", "o", "m", "l">>

\* mutant: extensions matched without regard to case
DetectIgnoreCase(path) ==
    LET ext == AndThenToStr(extension(path))
    IN CASE ext \in {Some(Ext_env), Some(<<"E", "n", "v">>)}       -> "dotenv"
         [] ext \in {Some(Ext_json), Some(<<"J", "S", "O", "N">>)} -> "json"
         [] ext = Some(Ext_toml)                                   -> "toml"
         [] OTHER -> IF AndThenToStr(file_name(path)) = Some(P_dotenv)
                     THEN "dotenv" ELSE "unsupported"

\* the match of load_config_file: which loader the path selects
Detect(path) ==
    LET ext == AndThenToStr(extension(path))
    IN CASE ext = Some(Ext_env)  -> "dotenv"
         [] ext = Some(Ext_json) -> "json"
         [] ext = Some(Ext_toml) -> "toml"
         [] OTHER -> IF AndThenToStr(file_name(path)) = Some(P_dotenv)
                     THEN "dotenv" ELSE "unsupported"

\* the arm taken for format f on what is at the path
Dispatch(f, path, st) ==
    CASE f = "dotenv" -> load_dotenv(st)
      [] f = "json"   -> load_json(st)
      [] f = "toml"   -> load_toml(st)
      [] OTHER        -> Err(UnsupportedFormat(path))

-----------------------------------------------------------------------------
(* Inputs *)

Range(seq) == {seq[i] : i \in 1..Len(seq)}

\* the --config lists given to a run: every list of at most MaxPaths paths
PathSeqs == UNION {[1..n -> RunPaths] : n \in 0..MaxPaths}

\* command vectors: none, and an executable with its arguments
Cmds == {<<>>, <<"sh", "-c", "env">>}

\* environments of the tool's process: one shares a key with the configs
ParentEnvs ==
    {("HOME" :> "/root"),
     ("HOME" :> "/root") @@ ("OVERRIDE" :> "from_parent")}

\* exit codes a child may end with
ExitCodes == {0, 1, 7}

\* causes the OS may give for a failed spawn or wait
OsErrors == {"NotFound", "PermissionDenied"}

Entries == {"main", "run_command", "load_config_file"}

-----------------------------------------------------------------------------
(* Initial states: an entry point, its arguments, and a filesystem that    *)
(* holds something (or nothing) at each path named.                        *)

Init ==
    /\ entry \in Entries
    /\ IF entry = "load_config_file"
       THEN /\ config_paths \in {<<p>> : p \in AllPaths}
            /\ cmd_args = <<>>
       ELSE /\ config_paths \in PathSeqs
            /\ cmd_args \in Cmds
    /\ parentEnv \in ParentEnvs
    /\ \E f \in [Range(config_paths) -> FileStates] :
           fs = [p \in AllPaths |->
                    IF p \in Range(config_paths) THEN f[p] ELSE Absent]
    /\ pc = CASE entry = "main" -> "parse"
              [] entry = "run_command" -> "run_command"
              [] OTHER -> "load_exists"
    /\ idx = 1
    /\ merged = EmptyMap
    /\ loadResult = Pending
    /\ returned = <<>>
    /\ mergeResult = Pending
    /\ result = Pending
    /\ osLog = <<>>
    /\ childEnv = None
    /\ status = None
    /\ stderr = <<>>
    /\ exitCode = None

-----------------------------------------------------------------------------
(* cli.rs / main.rs: argument parsing *)

\* Cli::parse(): `command` is required, so clap itself rejects a run with
\* no command (usage error, exit code 2) and main's body is not reached
CliParse ==
    /\ pc = "parse"
    /\ IF cmd_args = <<>>
       THEN /\ stderr' = Append(stderr, <<"error: ", "missing <COMMAND>">>)
            /\ exitCode' = Some(2)
            /\ pc' = "done"
       ELSE /\ pc' = "run_command"
            /\ UNCHANGED <<stderr, exitCode>>
    /\ UNCHANGED <<entry, config_paths, cmd_args, parentEnv, fs, idx, merged,
                   loadResult, returned, mergeResult, result, osLog, childEnv,
                   status>>

-----------------------------------------------------------------------------
(* runner.rs: merge_configs *)

\* run_command step 1 calls merge_configs, which starts from an empty map
MergeBegin ==
    /\ pc = "run_command"
    /\ merged' = EmptyMap
    /\ idx' = 1
    /\ pc' = "merge_loop"
    /\ UNCHANGED <<entry, config_paths, cmd_args, parentEnv, fs, loadResult,
                   returned, mergeResult, result, osLog, childEnv, status,
                   stderr, exitCode>>

\* `for path in paths`: call load_config_file on the next path, or leave
\* the loop and return Ok(merged_config)
MergeNext ==
    /\ pc = "merge_loop"
    /\ IF idx <= Len(config_paths)
       THEN /\ pc' = "load_exists"
            /\ UNCHANGED mergeResult
       ELSE /\ mergeResult' = Ok(merged)
            /\ pc' = "merge_ret"
    /\ UNCHANGED <<entry, config_paths, cmd_args, parentEnv, fs, idx, merged,
                   loadResult, returned, result, osLog, childEnv, status,
                   stderr, exitCode>>

\* mutant: a merge that skips a file that failed to load
MergeExtendSkipErr ==
    /\ pc = "load_ret"
    /\ entry /= "load_config_file"
    /\ merged' = IF IsErr(loadResult) THEN merged
                 ELSE Extend(merged, loadResult.val)
    /\ idx' = idx + 1
    /\ pc' = "merge_loop"
    /\ UNCHANGED <<entry, config_paths, cmd_args, parentEnv, fs, loadResult,
                   returned, mergeResult, result, osLog, childEnv, status,
                   stderr, exitCode>>

\* `let config = load_config_file(path)?; merged_config.extend(config);`
MergeExtend ==
    /\ pc = "load_ret"
    /\ entry /= "load_config_file"
    /\ IF IsErr(loadResult)
       THEN /\ mergeResult' = loadResult
            /\ pc' = "merge_ret"
            /\ UNCHANGED <<merged, idx>>
       ELSE /\ merged' = Extend(merged, loadResult.val)
            /\ idx' = idx + 1
            /\ pc' = "merge_loop"
            /\ UNCHANGED mergeResult
    /\ UNCHANGED <<entry, config_paths, cmd_args, parentEnv, fs, loadResult,
                   returned, result, osLog, childEnv, status, stderr,
                   exitCode>>

-----------------------------------------------------------------------------
(* config.rs: load_config_file *)

\* mutant: the existence check made on the path, whatever is there
LoadExistsUnchecked ==
    /\ pc = "load_exists"
    /\ osLog' = Append(osLog, <<"exists", config_paths[idx]>>)
    /\ pc' = "load_match"
    /\ UNCHANGED <<entry, config_paths, cmd_args, parentEnv, fs, idx, merged,
                   loadResult, returned, mergeResult, result, childEnv, status,
                   stderr, exitCode>>

\* `if !path.exists() { return Err(FileNotFound(path)) }`
LoadExists ==
    /\ pc = "load_exists"
    /\ osLog' = Append(osLog, <<"exists", config_paths[idx]>>)
    /\ IF ~Exists(fs[config_paths[idx]])
       THEN /\ loadResult' = Err(FileNotFound(config_paths[idx]))
            /\ returned' = Append(returned, loadResult')
            /\ pc' = "load_ret"
       ELSE /\ pc' = "load_match"
            /\ UNCHANGED <<loadResult, returned>>
    /\ UNCHANGED <<entry, config_paths, cmd_args, parentEnv, fs, idx, merged,
                   mergeResult, result, childEnv, status, stderr, exitCode>>

\* another process removes the file between the check and the read
Unlink ==
    /\ pc = "load_match"
    /\ fs[config_paths[idx]] /= Absent
    /\ fs' = [fs EXCEPT ![config_paths[idx]] = Absent]
    /\ UNCHANGED <<entry, config_paths, cmd_args, parentEnv, pc, idx, merged,
                   loadResult, returned, mergeResult, result, osLog, childEnv,
                   status, stderr, exitCode>>

\* the match on the extension and the loader it selects; a loader opens and
\* reads the file, the unsupported arm does not
LoadMatch ==
    /\ pc = "load_match"
    /\ LET path == config_paths[idx]
           f == Detect(path)
       IN /\ loadResult' = Dispatch(f, path, fs[path])
          /\ returned' = Append(returned, loadResult')
          /\ osLog' = IF f = "unsupported" THEN osLog
                      ELSE Append(osLog, <<"read", path>>)
    /\ pc' = "load_ret"
    /\ UNCHANGED <<entry, config_paths, cmd_args, parentEnv, fs, idx, merged,
                   mergeResult, result, childEnv, status, stderr, exitCode>>

\* load_config_file called on its own (config.rs tests) returns
LoadReturn ==
    /\ pc = "load_ret"
    /\ entry = "load_config_file"
    /\ pc' = "done"
    /\ UNCHANGED <<entry, config_paths, cmd_args, parentEnv, fs, idx, merged,
                   loadResult, returned, mergeResult, result, osLog, childEnv,
                   status, stderr, exitCode>>

-----------------------------------------------------------------------------
(* runner.rs: run_command *)

\* `let config = merge_configs(config_paths)?;`
MergeReturn ==
    /\ pc = "merge_ret"
    /\ IF IsErr(mergeResult)
       THEN /\ result' = mergeResult
            /\ pc' = "rc_ret"
       ELSE /\ pc' = "split_first"
            /\ UNCHANGED result
    /\ UNCHANGED <<entry, config_paths, cmd_args, parentEnv, fs, idx, merged,
                   loadResult, returned, mergeResult, osLog, childEnv, status,
                   stderr, exitCode>>

NoCommand == CommandFailed(<<"No command provided.">>)

\* mutant: an empty command treated as a run that succeeded
SplitFirstEmptyOk ==
    /\ pc = "split_first"
    /\ IF cmd_args = <<>>
       THEN /\ result' = Ok(0)
            /\ pc' = "rc_ret"
       ELSE /\ pc' = "spawn"
            /\ UNCHANGED result
    /\ UNCHANGED <<entry, config_paths, cmd_args, parentEnv, fs, idx, merged,
                   loadResult, returned, mergeResult, osLog, childEnv,
                   status, stderr, exitCode>>

\* `cmd_args.split_first()
\*     .ok_or_else(|| CommandFailed("No command provided."))?`
SplitFirst ==
    /\ pc = "split_first"
    /\ IF cmd_args = <<>>
       THEN /\ result' = Err(NoCommand)
            /\ pc' = "rc_ret"
       ELSE /\ pc' = "spawn"
            /\ UNCHANGED result
    /\ UNCHANGED <<entry, config_paths, cmd_args, parentEnv, fs, idx, merged,
                   loadResult, returned, mergeResult, osLog, childEnv, status,
                   stderr, exitCode>>

\* format!("Failed to spawn command '{}': {}", command, e)
SpawnMessage(command, e) ==
    <<"Failed to spawn command '", command, "': ", e>>

\* format!("Command '{}' failed to run: {}", command, e)
WaitMessage(command, e) ==
    <<"Command '", command, "' failed to run: ", e>>

\* mutant: inherited variables win over the config
ChildEnvParentWins(parent, config) == Extend(config, parent)

\* Command::new(command).envs(&config): the child inherits the parent's
\* environment, and every config entry is set on top of it
ChildEnvOf(parent, config) == Extend(parent, config)

\* mutant: a failed spawn tried a second time
SpawnRetry ==
    /\ pc = "spawn"
    /\ osLog' = Append(osLog, <<"spawn", cmd_args[1]>>)
    /\ \/ /\ childEnv' = Some(ChildEnvOf(parentEnv, mergeResult.val))
          /\ pc' = "wait"
          /\ UNCHANGED result
       \/ /\ Len(osLog) = 0 \/ osLog[Len(osLog)][1] /= "spawn"
          /\ UNCHANGED <<childEnv, pc, result>>
       \/ \E e \in OsErrors :
             /\ result' = Err(CommandFailed(SpawnMessage(cmd_args[1], e)))
             /\ pc' = "rc_ret"
             /\ UNCHANGED childEnv
    /\ UNCHANGED <<entry, config_paths, cmd_args, parentEnv, fs, idx, merged,
                   loadResult, returned, mergeResult, status, stderr,
                   exitCode>>

\* `.spawn().map_err(..)?`: the OS starts the child or refuses
Spawn ==
    /\ pc = "spawn"
    /\ osLog' = Append(osLog, <<"spawn", cmd_args[1]>>)
    /\ \/ /\ childEnv' = Some(ChildEnvOf(parentEnv, mergeResult.val))
          /\ pc' = "wait"
          /\ UNCHANGED result
       \/ \E e \in OsErrors :
             /\ result' = Err(CommandFailed(SpawnMessage(cmd_args[1], e)))
             /\ pc' = "rc_ret"
             /\ UNCHANGED childEnv
    /\ UNCHANGED <<entry, config_paths, cmd_args, parentEnv, fs, idx, merged,
                   loadResult, returned, mergeResult, status, stderr,
                   exitCode>>

\* `status.code().unwrap_or(0)`
CodeOf(st) == UnwrapOr(st, 0)

\* `child.wait().map_err(..)?` and `Ok(status.code().unwrap_or(0))`: the
\* child ends with an exit code, or by a signal (no code), or wait fails
Wait ==
    /\ pc = "wait"
    /\ osLog' = Append(osLog, <<"wait", cmd_args[1]>>)
    /\ \/ \E st \in {None} \cup {Some(c) : c \in ExitCodes} :
             /\ status' = Some(st)
             /\ result' = Ok(CodeOf(st))
       \/ \E e \in OsErrors :
             /\ result' = Err(CommandFailed(WaitMessage(cmd_args[1], e)))
             /\ UNCHANGED status
    /\ pc' = "rc_ret"
    /\ UNCHANGED <<entry, config_paths, cmd_args, parentEnv, fs, idx, merged,
                   loadResult, returned, mergeResult, childEnv, stderr,
                   exitCode>>

\* run_command called on its own (runner.rs tests) returns to its caller
RunCommandReturn ==
    /\ pc = "rc_ret"
    /\ entry = "run_command"
    /\ pc' = "done"
    /\ UNCHANGED <<entry, config_paths, cmd_args, parentEnv, fs, idx, merged,
                   loadResult, returned, mergeResult, result, osLog, childEnv,
                   status, stderr, exitCode>>

-----------------------------------------------------------------------------
(* main.rs: main *)

\* mutant: any nonzero child exit code reported as a failure of the tool
MainMatchNonzeroIsError ==
    /\ pc = "rc_ret"
    /\ entry = "main"
    /\ IF IsOk(result) /\ result.val = 0
       THEN /\ exitCode' = Some(0)
            /\ UNCHANGED stderr
       ELSE /\ stderr' = Append(stderr, <<"Error: ", <<"child failed">>>>)
            /\ exitCode' = Some(1)
    /\ pc' = "done"
    /\ UNCHANGED <<entry, config_paths, cmd_args, parentEnv, fs, idx, merged,
                   loadResult, returned, mergeResult, result, osLog, childEnv,
                   status>>

\* mutant: errors printed, but the process still ends with 0
MainMatchErrExitsZero ==
    /\ pc = "rc_ret"
    /\ entry = "main"
    /\ IF IsOk(result)
       THEN /\ exitCode' = Some(result.val)
            /\ UNCHANGED stderr
       ELSE /\ stderr' = Append(stderr, <<"Error: ", Display(result.err)>>)
            /\ exitCode' = Some(0)
    /\ pc' = "done"
    /\ UNCHANGED <<entry, config_paths, cmd_args, parentEnv, fs, idx, merged,
                   loadResult, returned, mergeResult, result, osLog, childEnv,
                   status>>

\* `match result`: Ok(code) exits with code when it is not 0 and returns
\* from main (exit code 0) when it is; Err(e) prints "Error: {e}" on
\* standard error and exits with 1
MainMatch ==
    /\ pc = "rc_ret"
    /\ entry = "main"
    /\ IF IsOk(result)
       THEN /\ exitCode' = IF result.val /= 0 THEN Some(result.val)
                            ELSE Some(0)
            /\ UNCHANGED stderr
       ELSE /\ stderr' = Append(stderr, <<"Error: ", Display(result.err)>>)
            /\ exitCode' = Some(1)
    /\ pc' = "done"
    /\ UNCHANGED <<entry, config_paths, cmd_args, parentEnv, fs, idx, merged,
                   loadResult, returned, mergeResult, result, osLog, childEnv,
                   status>>

-----------------------------------------------------------------------------

Next ==
    \/ CliParse
    \/ MergeBegin
    \/ MergeNext
    \/ MergeExtend
    \/ LoadExists
    \/ Unlink
    \/ LoadMatch
    \/ LoadReturn
    \/ MergeReturn
    \/ SplitFirst
    \/ Spawn
    \/ Wait
    \/ RunCommandReturn
    \/ MainMatch

Spec == Init /\ [][Next]_vars

-----------------------------------------------------------------------------
(* Properties *)

\* merge_configs has returned
MergeDone == mergeResult /= Pending

\* all keys of the mappings load_config_file returned
AllKeys == UNION {DOMAIN returned[i].val : i \in 1..Len(returned)}

\* the last call of load_config_file whose mapping holds key k
LastWith(k) ==
    CHOOSE i \in 1..Len(returned) :
        /\ k \in DOMAIN returned[i].val
        /\ \A j \in (i + 1)..Len(returned) : k \notin DOMAIN returned[j].val

\* C1: when every file of the list loads, merge_configs returns the mapping
\* whose keys are the union of the files' keys, each with the value of the
\* last file in the list that has it; every file was loaded, once, in the
\* order supplied; and the empty list gives the empty mapping, not an error.
C1_MergeIsLeftFold ==
    /\ MergeDone /\ IsOk(mergeResult) =>
         /\ Len(returned) = Len(config_paths)
         /\ \A i \in 1..Len(returned) :
                /\ IsOk(returned[i])
                /\ returned[i].val = fs[config_paths[i]].map
         /\ DOMAIN mergeResult.val = AllKeys
         /\ \A k \in AllKeys :
                mergeResult.val[k] = returned[LastWith(k)].val[k]
    /\ MergeDone /\ config_paths = <<>> => mergeResult = Ok(EmptyMap)

\* C1 witness: the two files of test_merge_configs, merged in that order
C1_Witness ==
    /\ config_paths = <<P_a_env, P_b_json>>
    /\ returned = <<Ok(M_env), Ok(M_json)>>
    /\ mergeResult =
         Ok(("KEY1" :> "value1") @@ ("KEY2" :> "value2")
            @@ ("OVERRIDE" :> "from_json"))

\* the ordered paths the OS was asked about (exists) so far
RECURSIVE CheckedPaths(_)
CheckedPaths(log) ==
    IF log = <<>> THEN <<>>
    ELSE IF log[1][1] = "exists"
         THEN <<log[1][2]>> \o CheckedPaths(Tail(log))
         ELSE CheckedPaths(Tail(log))

\* number of entries of the log for operation op
RECURSIVE CountOp(_, _)
CountOp(log, op) ==
    IF log = <<>> THEN 0
    ELSE (IF log[1][1] = op THEN 1 ELSE 0) + CountOp(Tail(log), op)

\* C2: merge_configs fails fast.  Once a load has failed and control is back
\* in merge_configs' caller, the merge's result is that error; it is the
\* error of the first failing file (every earlier load succeeded); only the
\* files up to it were checked or read; nothing merged so far is returned,
\* passed to a child or turned into a successful result.
C2_MergeFailsFast ==
    /\ entry /= "load_config_file"
       /\ pc \notin {"load_exists", "load_match", "load_ret"}
       /\ returned /= <<>> /\ IsErr(returned[Len(returned)])
       => mergeResult = returned[Len(returned)]
    /\ MergeDone /\ IsErr(mergeResult) =>
         LET n == Len(returned)
         IN /\ n >= 1 /\ n <= Len(config_paths)
            /\ mergeResult = returned[n]
            /\ \A i \in 1..(n - 1) : IsOk(returned[i])
            /\ CheckedPaths(osLog) = SubSeq(config_paths, 1, n)
            /\ CountOp(osLog, "spawn") = 0
            /\ childEnv = None
            /\ result \in {Pending, mergeResult}

\* C2 witness: the first file loads, the second does not exist, and the
\* merge has returned that error although entries had been accumulated
C2_Witness ==
    /\ config_paths = <<P_a_env, P_b_json>>
    /\ returned = <<Ok(M_env), Err(FileNotFound(P_b_json))>>
    /\ merged = M_env
    /\ mergeResult = Err(FileNotFound(P_b_json))
    /\ pc = "done"

\* C3 as claimed: run_command with an empty command list fails with
\* CommandFailed whatever the config paths are, and before failing it makes
\* no OS operation (no config file checked or read, no spawn).
C3_EmptyCommandFailsImmediately ==
    entry = "run_command" /\ cmd_args = <<>> =>
        /\ osLog = <<>>
        /\ result /= Pending =>
               IsErr(result) /\ result.err.kind = "CommandFailed"

\* C3 amended: run_command with an empty command list never spawns or waits.
\* It loads the config files first: when they all load (the empty list
\* included) it fails with CommandFailed("No command provided."), and when
\* one fails to load it returns that load error instead.
C3_EmptyCommandFailsAfterMerge ==
    entry = "run_command" /\ cmd_args = <<>> =>
        /\ CountOp(osLog, "spawn") = 0
        /\ CountOp(osLog, "wait") = 0
        /\ childEnv = None
        /\ result /= Pending =>
               /\ MergeDone
               /\ IsOk(mergeResult) =>
                      /\ result = Err(NoCommand)
                      /\ CheckedPaths(osLog) = config_paths
               /\ IsErr(mergeResult) => result = mergeResult

\* C3 witness: an empty command with one config file, which was checked and
\* read before the command was found to be empty
C3_Witness ==
    /\ entry = "run_command"
    /\ cmd_args = <<>>
    /\ config_paths = <<P_a_env>>
    /\ osLog = << <<"exists", P_a_env>>, <<"read", P_a_env>> >>
    /\ result = Err(NoCommand)

\* C4: load_config_file on a path that does not exist returns
\* FileNotFound(path) straight from the existence check, whatever the
\* path's extension or name: the match on the format is not reached and
\* nothing is opened or read.
C4_MissingPathIsFileNotFound ==
    [][pc = "load_exists" /\ fs[config_paths[idx]] = Absent =>
          /\ loadResult' = Err(FileNotFound(config_paths[idx]))
          /\ returned' = Append(returned, loadResult')
          /\ osLog' = Append(osLog, <<"exists", config_paths[idx]>>)
          /\ pc' = "load_ret"]_vars

\* C4 witness: a missing path with an unsupported extension, reported as
\* not found after the existence check alone
C4_Witness ==
    /\ entry = "load_config_file"
    /\ config_paths = <<P_d_txt>>
    /\ fs[P_d_txt] = Absent
    /\ osLog = << <<"exists", P_d_txt>> >>
    /\ loadResult = Err(FileNotFound(P_d_txt))
    /\ pc = "done"

\* the format the claim assigns to each path, worked out by hand:
\* extension exactly env / json / toml, else base name exactly ".env"
ClaimedFormat ==
    (P_a_env :> "dotenv") @@ (P_b_json :> "json") @@ (P_c_toml :> "toml")
    @@ (P_d_txt :> "unsupported") @@ (P_dotenv :> "dotenv")
    @@ (P_dir_dotenv :> "dotenv") @@ (P_dotjson :> "unsupported")
    @@ (P_a_JSON :> "unsupported") @@ (P_a_Env :> "unsupported")
    @@ (P_noext :> "unsupported") @@ (P_a_env_json :> "json")
    @@ (P_a_json_bak :> "unsupported") @@ (P_a_dot :> "unsupported")
    @@ (P_x_dotenv :> "dotenv") @@ (P_badutf_env :> "unsupported")

\* the parse error variant of each format
ParseKind(f) ==
    CASE f = "dotenv" -> "Dotenv"
      [] f = "json"   -> "Json"
      [] f = "toml"   -> "Toml"

\* load_config_file has just returned from its match (not from the check)
ReturnedFromMatch ==
    /\ pc = "load_ret"
    /\ loadResult /= Err(FileNotFound(config_paths[idx]))

C6_ExitCodeIsChilds ==
    entry = "main" /\ pc = "done" /\ status /= None =>
        /\ exitCode = Some(IF status[1] = None THEN 0 ELSE status[1][1])
        /\ IsOk(result)
        /\ stderr = <<>>

\* C6 witness: the child exited with 7, and so did the tool
C6_Witness ==
    /\ entry = "main"
    /\ pc = "done"
    /\ status = Some(Some(7))
    /\ exitCode = Some(7)

\* a failure happened in the core during this run
LoadFailed == returned /= <<>> /\ IsErr(returned[Len(returned)])
SpawnFailed == CountOp(osLog, "spawn") = 1 /\ childEnv = None
WaitFailed == CountOp(osLog, "wait") = 1 /\ status = None

C8_ChildEnvIsOverlay ==
    /\ [](childEnv /= None =>
            LET env == childEnv[1]
                cfg == mergeResult.val
            IN /\ DOMAIN env = DOMAIN parentEnv \cup DOMAIN cfg
               /\ \A k \in DOMAIN cfg : env[k] = cfg[k]
               /\ \A k \in DOMAIN parentEnv \ DOMAIN cfg :
                      env[k] = parentEnv[k])
    /\ [][parentEnv' = parentEnv]_vars

\* C8 witness: OVERRIDE is set in the parent and in the config; the child
\* sees the config's value, and HOME as inherited
C8_Witness ==
    /\ parentEnv = ("HOME" :> "/root") @@ ("OVERRIDE" :> "from_parent")
    /\ IsOk(mergeResult) /\ mergeResult.val = M_json
    /\ childEnv = Some(("HOME" :> "/root") @@ ("OVERRIDE" :> "from_json")
                       @@ ("KEY2" :> "value2"))

\* the state of the runner's state machine
RunnerState ==
    CASE pc = "spawn" -> "Spawning"
      [] pc = "wait" -> "Running"
      [] OTHER ->
           IF CountOp(osLog, "spawn") = 0 THEN "Idle"
           ELSE IF CountOp(osLog, "wait") = 0 THEN "SpawnFailed"
           ELSE IF IsOk(result) THEN "Exited"
           ELSE "WaitFailed"

RunnerTransitions ==
    {<<"Idle", "Idle">>, <<"Idle", "Spawning">>,
     <<"Spawning", "Running">>, <<"Spawning", "SpawnFailed">>,
     <<"Running", "Exited">>, <<"Running", "WaitFailed">>,
     <<"Exited", "Exited">>, <<"SpawnFailed", "SpawnFailed">>,
     <<"WaitFailed", "WaitFailed">>}

\* position in the log of the only entry for op
PosOf(op) == CHOOSE i \in 1..Len(osLog) : osLog[i][1] = op

\* C9: the runner moves Idle -> Spawning -> Running -> Exited | SpawnFailed
\* | WaitFailed and in no other way.  It spawns at most once, and only after
\* every config file has loaded and merged; it waits at most once, and only
\* after the spawn succeeded; the three final states are never left; a
\* failed spawn or wait gives CommandFailed with the executable's name.
C9_RunnerStateMachine ==
    /\ [](/\ CountOp(osLog, "spawn") <= 1
          /\ CountOp(osLog, "wait") <= 1
          /\ RunnerState /= "Idle" =>
                 /\ IsOk(mergeResult)
                 /\ Len(returned) = Len(config_paths)
                 /\ \A i \in 1..Len(returned) : IsOk(returned[i])
                 /\ cmd_args /= <<>>
          /\ CountOp(osLog, "spawn") = 1 =>
                 \A i \in 1..Len(osLog) :
                     osLog[i][1] \in {"exists", "read"} => i < PosOf("spawn")
          /\ CountOp(osLog, "wait") = 1 =>
                 /\ CountOp(osLog, "spawn") = 1
                 /\ PosOf("spawn") < PosOf("wait")
                 /\ childEnv /= None
          /\ RunnerState \in {"SpawnFailed", "WaitFailed"} =>
                 /\ IsErr(result)
                 /\ result.err.kind = "CommandFailed"
                 /\ cmd_args[1] \in Range(result.err.payload)
          /\ RunnerState = "SpawnFailed" => childEnv = None)
    /\ [][\E t \in RunnerTransitions :
              t[1] = RunnerState /\ t[2] = RunnerState']_vars

\* C9 witness: the spawn succeeded after two files were merged, and the
\* wait failed
C9_Witness ==
    /\ Len(config_paths) = 2
    /\ RunnerState = "WaitFailed"
    /\ result = Err(CommandFailed(WaitMessage("sh", "PermissionDenied")))

\* C10 as claimed: every error load_config_file returns is FileNotFound,
\* UnsupportedFormat, or the parse error of the format detected.
C10_OnlyTaxonomyErrors ==
    pc = "load_ret" /\ IsErr(loadResult) =>
        LET f == ClaimedFormat[config_paths[idx]]
        IN \/ loadResult.err.kind \in {"FileNotFound", "UnsupportedFormat"}
           \/ f /= "unsupported" /\ loadResult.err.kind = ParseKind(f)

\* C10 amended: every error load_config_file returns is FileNotFound,
\* UnsupportedFormat, the parse error of the format detected, or Io.  Io is
\* what the JSON and TOML loaders return when the file's text cannot be
\* read (a directory, not UTF-8, or gone since the existence check), and
\* they return it whenever that happens; a line-based file that cannot be
\* read gives the Dotenv error.
C10_TaxonomyErrorsOrIo ==
    pc = "load_ret" /\ IsErr(loadResult) =>
        LET path == config_paths[idx]
            f == ClaimedFormat[path]
            kind == loadResult.err.kind
            unreadable == fs[path].kind /= "file"
        IN /\ \/ kind \in {"FileNotFound", "UnsupportedFormat"}
              \/ f /= "unsupported" /\ kind = ParseKind(f)
              \/ kind = "Io"
           /\ kind = "Io" <=>
                  /\ f \in {"json", "toml"}
                  /\ unreadable
                  /\ osLog[Len(osLog)] = <<"read", path>>
           /\ f = "dotenv" /\ kind /= "FileNotFound" /\ unreadable =>
                  kind = "Dotenv"

\* C10 witness: a directory named b.json passes the existence check and the
\* JSON loader's read fails with an Io error
C10_Witness ==
    /\ pc = "load_ret"
    /\ config_paths[idx] = P_b_json
    /\ fs[P_b_json] = Dir
    /\ loadResult = Err(Io("IsADirectory"))

====
